---- MODULE Spec2Model ----
(***************************************************************************)
(* Model of the two reporting utilities of review_toolkit:                 *)
(*   generate_geo_summary.py  (text report)                                *)
(*   generate_subnet_map.py   (HTML map)                                   *)
(*                                                                         *)
(* A Python str is a sequence of one-character strings, so that split,     *)
(* strip, slicing and float() are computed character by character.         *)
(* Python's None is a value distinct from every str.                       *)
(***************************************************************************)
EXTENDS Integers, Sequences, FiniteSets, TLC

\* ------------------------------------------------------------------ bounds
\* Most data rows read from one input file.
MaxRows == 2
\* Longest dc_region string drawn for the region-parsing specification.
MaxLen == 4

\* --------------------------------------------------------- Python values
\* None: what csv.DictReader stores (restval) for a field a short row lacks.
None == <<"NoneType">>

S_Empty == <<>>
S_None == <<"N","o","n","e">>
S_unknown == <<"u","n","k","n","o","w","n">>
S_Zero == <<"0">>
S_Ellipsis == <<".",".",".">>
S_ADDED == <<"A","D","D","E","D">>
S_REMOVED == <<"R","E","M","O","V","E","D">>
S_UNCHANGED == <<"U","N","C","H","A","N","G","E","D">>
S_NO_VIOLATIONS == <<"N","O","_","V","I","O","L","A","T","I","O","N","S">>
S_REMOVED_NODE == <<"R","E","M","O","V","E","D","_","N","O","D","E">>

\* Characters str.strip() removes (the ASCII whitespace of the model's alphabet).
Whitespace == {" ", "\t", "\n", "\r"}

Digits == <<"0","1","2","3","4","5","6","7","8","9">>

\* Characters of the model in code-point order (Python compares str by code point).
CodeOrder ==
  <<"\t", "\n", "\r", " ", "(", ")", "+", ",", "-", ".",
    "0","1","2","3","4","5","6","7","8","9",
    "A","B","C","D","E","F","G","H","I","J","K","L","M",
    "N","O","P","Q","R","S","T","U","V","W","X","Y","Z", "_",
    "a","b","c","d","e","f","g","h","i","j","k","l","m",
    "n","o","p","q","r","s","t","u","v","w","x","y","z">>

Ord(c) == CHOOSE i \in DOMAIN CodeOrder : CodeOrder[i] = c

\* bool(v) for a str or None: None and '' are falsy.
Truthy(v) == v # None /\ v # S_Empty

\* f"{v}": a str formats as itself, None as the text None.
Str(v) == IF v = None THEN S_None ELSE v

\* c in s
Contains(s, c) == \E i \in DOMAIN s : s[i] = c

\* s[:n]
Prefix(s, n) == SubSeq(s, 1, IF Len(s) < n THEN Len(s) ELSE n)

RECURSIVE LStrip(_)
LStrip(s) == IF s # <<>> /\ Head(s) \in Whitespace THEN LStrip(Tail(s)) ELSE s

RECURSIVE RStrip(_)
RStrip(s) ==
  IF s # <<>> /\ s[Len(s)] \in Whitespace THEN RStrip(SubSeq(s, 1, Len(s) - 1)) ELSE s

\* str.strip()
Strip(s) == RStrip(LStrip(s))

\* str.split(sep): the pieces between successive separators, empty pieces kept.
RECURSIVE Split(_, _)
Split(s, sep) ==
  IF ~Contains(s, sep) THEN <<s>>
  ELSE LET i == CHOOSE j \in DOMAIN s :
                  s[j] = sep /\ \A k \in 1..(j - 1) : s[k] # sep
       IN <<SubSeq(s, 1, i - 1)>> \o Split(SubSeq(s, i + 1, Len(s)), sep)

\* a < b for str (lexicographic by code point)
RECURSIVE StrLess(_, _)
StrLess(a, b) ==
  IF b = <<>> THEN FALSE
  ELSE IF a = <<>> THEN TRUE
  ELSE IF Head(a) # Head(b) THEN Ord(Head(a)) < Ord(Head(b))
  ELSE StrLess(Tail(a), Tail(b))

\* ---------------------------------------------------------- csv.DictReader
\* row[col] of the dict DictReader builds: the field under the header's column,
\* None when the row is shorter than the header; fields beyond the header go to
\* the None key and are never read.  row.get(col, default) falls back to the
\* default only when the header has no such column.
RowGet(hdr, row, col, default) ==
  IF \E i \in DOMAIN hdr : hdr[i] = col
  THEN LET i == CHOOSE j \in DOMAIN hdr : hdr[j] = col
       IN IF i <= Len(row) THEN row[i] ELSE None
  ELSE default

\* ------------------------------------------------- text utility: the loader
\* The dict read_subnet_data appends for one row (generate_geo_summary.py).
TextNode(hdr, row) ==
  [ node_id |-> RowGet(hdr, row, "node_id", S_Empty),
    dc_id |-> RowGet(hdr, row, "node_operator_dc", S_Empty),
    dc_owner |-> RowGet(hdr, row, "dc_owner", S_Empty),
    dc_region |-> RowGet(hdr, row, "dc_region", S_Empty),
    change_type |-> RowGet(hdr, row, "change_type", S_UNCHANGED),
    constraint_violation |-> RowGet(hdr, row, "constraint_violation", S_Empty),
    reward_region |-> RowGet(hdr, row, "reward_region", S_Empty) ]

\* ----------------------------------------- text utility: region parsing
\* Mutant: the segments are not stripped.
ParseRegion_NoStrip(dc_region) ==
  IF Truthy(dc_region) /\ Contains(dc_region, ",")
  THEN LET parts == Split(dc_region, ",")
       IN IF Len(parts) >= 3 THEN <<parts[1], parts[2], parts[3]>>
          ELSE IF Len(parts) = 2 THEN <<parts[1], parts[2], S_Empty>>
          ELSE <<parts[1], S_Empty, S_Empty>>
  ELSE <<dc_region, S_Empty, S_Empty>>

\* (continent, country, city) as analyze_geographic_distribution derives them
\* from one node's dc_region.
ParseRegion(dc_region) ==
  IF Truthy(dc_region) /\ Contains(dc_region, ",")
  THEN LET raw == Split(dc_region, ",")
           parts == [i \in DOMAIN raw |-> Strip(raw[i])]
       IN IF Len(parts) >= 3 THEN <<parts[1], parts[2], parts[3]>>
          ELSE IF Len(parts) = 2 THEN <<parts[1], parts[2], S_Empty>>
          ELSE <<parts[1], S_Empty, S_Empty>>
  ELSE <<dc_region, S_Empty, S_Empty>>

\* ------------------------------------------------- map utility: the loader
\* (country, city) as the map's read_subnet_data derives them from dc_region.
MapRegion(dc_region) ==
  IF Truthy(dc_region) /\ Contains(dc_region, ",")
  THEN LET region_parts == Split(dc_region, ",")
       IN << IF Len(region_parts) > 1 THEN region_parts[2] ELSE S_Empty,
             IF Len(region_parts) > 2 THEN region_parts[3] ELSE S_Empty >>
  ELSE <<S_Empty, S_Empty>>

\* A float is <<"float", num, den>>, the number num/den with den a power of
\* ten and no common factor of ten; den = 0 stands for nan (num = 0) and for
\* +-inf (num = +-1).
ValueError == <<"ValueError">>

DigitVal(c) == Ord(c) - Ord("0")
IsDigit(c) == \E i \in DOMAIN Digits : Digits[i] = c
Lower(c) ==
  IF Ord(c) >= Ord("A") /\ Ord(c) <= Ord("Z")
  THEN CodeOrder[Ord(c) + (Ord("a") - Ord("A"))] ELSE c

RECURSIVE DigitsValue(_)
DigitsValue(s) ==
  IF s = <<>> THEN 0 ELSE 10 * DigitsValue(SubSeq(s, 1, Len(s) - 1)) + DigitVal(s[Len(s)])

RECURSIVE Pow10(_)
Pow10(n) == IF n = 0 THEN 1 ELSE 10 * Pow10(n - 1)

RECURSIVE Reduce10(_, _)
Reduce10(num, den) ==
  IF den > 1 /\ num % 10 = 0 THEN Reduce10(num \div 10, den \div 10)
  ELSE <<"float", num, den>>

\* float(s) for the strings of the model: surrounding whitespace dropped, an
\* optional sign, then nan / inf / infinity in any case, or decimal digits with
\* at most one point and at least one digit.  (Exponents and digit-group
\* underscores are outside the model's coordinate strings.)
PyFloat(s) ==
  LET t == Strip(s)
      signed == t # <<>> /\ t[1] \in {"+", "-"}
      sgn == IF signed /\ t[1] = "-" THEN -1 ELSE 1
      body == IF signed THEN Tail(t) ELSE t
      low == [i \in DOMAIN body |-> Lower(body[i])]
      dots == {i \in DOMAIN body : body[i] = "."}
      digs == SelectSeq(body, IsDigit)
      frac == IF dots = {} THEN 0 ELSE Len(body) - (CHOOSE i \in dots : TRUE)
  IN IF low = <<"n","a","n">> THEN <<"float", 0, 0>>
     ELSE IF low \in {<<"i","n","f">>, <<"i","n","f","i","n","i","t","y">>}
       THEN <<"float", sgn, 0>>
     ELSE IF /\ \A i \in DOMAIN body : IsDigit(body[i]) \/ body[i] = "."
             /\ Cardinality(dots) <= 1
             /\ digs # <<>>
       THEN Reduce10(sgn * DigitsValue(digs), Pow10(frac))
     ELSE ValueError

\* latitude / longitude from the stripped field text: unset (None) for the
\* empty string, the text None, and anything float() rejects.
Coerce(str) ==
  IF str # S_Empty /\ str # S_None
  THEN IF PyFloat(str) = ValueError THEN None ELSE PyFloat(str)
  ELSE None

\* The body of the per-row try block of the map's read_subnet_data: the record
\* appended, or the exception raised (None has no strip) and the node id the
\* warning names.
MapRow(hdr, row) ==
  LET dc_region == RowGet(hdr, row, "dc_region", S_Empty)
      latRaw == RowGet(hdr, row, "gps_latitude", S_Empty)
      lonRaw == RowGet(hdr, row, "gps_longitude", S_Empty)
  IN IF latRaw = None \/ lonRaw = None
     THEN [ raised |-> TRUE,
            warning |-> [k |-> "warning",
                         node |-> Str(RowGet(hdr, row, "node_id", S_unknown)),
                         e |-> "AttributeError"] ]
     ELSE [ raised |-> FALSE,
            node |->
              [ node_id |-> RowGet(hdr, row, "node_id", S_Empty),
                node_operator_id |-> RowGet(hdr, row, "node_operator_id", S_Empty),
                node_provider_id |-> RowGet(hdr, row, "node_provider_id", S_Empty),
                dc_id |-> RowGet(hdr, row, "node_operator_dc", S_Empty),
                dc_owner |-> RowGet(hdr, row, "dc_owner", S_Empty),
                dc_region |-> dc_region,
                country |-> MapRegion(dc_region)[1],
                city |-> MapRegion(dc_region)[2],
                change_type |-> RowGet(hdr, row, "change_type", S_UNCHANGED),
                constraint_violation |-> RowGet(hdr, row, "constraint_violation", S_Empty),
                reward_region |-> RowGet(hdr, row, "reward_region", S_Empty),
                reward_xdr |-> RowGet(hdr, row, "reward_xdr", S_Zero),
                latitude |-> Coerce(Strip(latRaw)),
                longitude |-> Coerce(Strip(lonRaw)) ] ]

\* ------------------------------------------------------ shared predicates
\* Mutant: the REMOVED_NODE sentinel is forgotten.
InViolation_NoRemovedNode(cv) == Truthy(cv) /\ cv # S_NO_VIOLATIONS

\* The per-node violation test both utilities apply to constraint_violation.
InViolation(cv) == Truthy(cv) /\ cv \notin {S_NO_VIOLATIONS, S_REMOVED_NODE}

\* len([n for n in nodes if <in violation>])
RECURSIVE ViolationCount(_)
ViolationCount(nodes) ==
  IF nodes = <<>> THEN 0
  ELSE (IF InViolation(Head(nodes).constraint_violation) THEN 1 ELSE 0)
       + ViolationCount(Tail(nodes))

\* len([n for n in nodes if n['change_type'] == ct])
RECURSIVE ChangeCount(_, _)
ChangeCount(nodes, ct) ==
  IF nodes = <<>> THEN 0
  ELSE (IF Head(nodes).change_type = ct THEN 1 ELSE 0) + ChangeCount(Tail(nodes), ct)

\* --------------------------------------------- grouping (dict, Counter)
\* A defaultdict(list) filled from <<key, item>> pairs in order: one
\* [key, items] entry per key, in order of first occurrence (dict order).
RECURSIVE GroupPairs(_)
GroupPairs(pairs) ==
  IF pairs = <<>> THEN <<>>
  ELSE LET init == GroupPairs(SubSeq(pairs, 1, Len(pairs) - 1))
           last == pairs[Len(pairs)]
       IN IF \E i \in DOMAIN init : init[i].key = last[1]
          THEN LET i == CHOOSE j \in DOMAIN init : init[j].key = last[1]
               IN [init EXCEPT ![i].items = Append(@, last[2])]
          ELSE Append(init, [key |-> last[1], items |-> <<last[2]>>])

\* Counter(n['change_type'] for n in items): [key, items] per change type.
ChangeCounter(items) ==
  GroupPairs([i \in DOMAIN items |-> <<items[i].change_type, items[i]>>])

RECURSIVE Flatten(_)
Flatten(seqs) == IF seqs = <<>> THEN <<>> ELSE Head(seqs) \o Flatten(Tail(seqs))

\* sorted(d.items()) for a dict with str keys: ascending by key.
RECURSIVE InsertByKey(_, _)
InsertByKey(sorted, g) ==
  IF sorted = <<>> THEN <<g>>
  ELSE IF StrLess(g.key, Head(sorted).key) THEN <<g>> \o sorted
  ELSE <<Head(sorted)>> \o InsertByKey(Tail(sorted), g)

RECURSIVE SortedByKey(_)
SortedByKey(groups) ==
  IF groups = <<>> THEN <<>>
  ELSE InsertByKey(SortedByKey(SubSeq(groups, 1, Len(groups) - 1)), groups[Len(groups)])

\* Mutant: entries of equal count come out in reverse order.
RECURSIVE InsertByCount_TiesReversed(_, _)
InsertByCount_TiesReversed(sorted, e) ==
  IF sorted = <<>> THEN <<e>>
  ELSE IF Head(sorted).count <= e.count THEN <<e>> \o sorted
  ELSE <<Head(sorted)>> \o InsertByCount_TiesReversed(Tail(sorted), e)

\* sorted(country_summary, key=lambda x: x[1], reverse=True): descending by
\* count; Python's sort is stable, also with reverse=True.
RECURSIVE InsertByCount(_, _)
InsertByCount(sorted, e) ==
  IF sorted = <<>> THEN <<e>>
  ELSE IF Head(sorted).count < e.count THEN <<e>> \o sorted
  ELSE <<Head(sorted)>> \o InsertByCount(Tail(sorted), e)

RECURSIVE SortedByCount(_)
SortedByCount(summary) ==
  IF summary = <<>> THEN <<>>
  ELSE InsertByCount(SortedByCount(SubSeq(summary, 1, Len(summary) - 1)),
                     summary[Len(summary)])

\* ------------------------------------------ text utility: the analysis
\* node_id[:20] keeps at most this many characters.
IdDisplayLen == 20

\* node['node_id'][:20] raises TypeError when node_id is None.
AnalyzeRaises(nodes) == \E i \in DOMAIN nodes : nodes[i].node_id = None

\* node_info built by analyze_geographic_distribution for one node.
NodeInfo(node) ==
  [ node_id |-> Prefix(node.node_id, IdDisplayLen) \o S_Ellipsis,
    dc_id |-> node.dc_id,
    dc_owner |-> node.dc_owner,
    change_type |-> node.change_type,
    violations |-> node.constraint_violation,
    city |-> ParseRegion(node.dc_region)[3] ]

\* regions: keyed by f"{continent},{country}"
Regions(nodes) ==
  GroupPairs([i \in DOMAIN nodes |->
    << Str(ParseRegion(nodes[i].dc_region)[1]) \o <<",">>
         \o Str(ParseRegion(nodes[i].dc_region)[2]),
       NodeInfo(nodes[i]) >>])

\* countries: keyed by country
Countries(nodes) ==
  GroupPairs([i \in DOMAIN nodes |->
    <<ParseRegion(nodes[i].dc_region)[2], NodeInfo(nodes[i])>>])

\* continents: keyed by continent (built and returned, never printed)
Continents(nodes) ==
  GroupPairs([i \in DOMAIN nodes |->
    <<ParseRegion(nodes[i].dc_region)[1], NodeInfo(nodes[i])>>])

\* ------------------------------------------- text utility: the report
\* Every print() is one line of stdout, kept as a record: k names the line
\* and the other fields hold the values formatted into it.
Rule == [k |-> "rule"]
Blank == [k |-> "blank"]

S_VIOLATION == <<"V","I","O","L","A","T","I","O","N">>

\* colors.get(change_type, neutral marker)
Icon(change_type) ==
  IF change_type = S_ADDED THEN "green"
  ELSE IF change_type = S_REMOVED THEN "red"
  ELSE IF change_type = S_UNCHANGED THEN "blue"
  ELSE IF change_type = S_VIOLATION THEN "yellow"
  ELSE "white"

\* Section 1: banner, optional subnet line, total.
HeaderLines(nodes, subnet_id) ==
  <<Rule, [k |-> "title"], Rule>>
  \o (IF subnet_id # S_Empty THEN <<[k |-> "subnet", id |-> subnet_id]>> ELSE <<>>)
  \o <<[k |-> "total", n |-> Len(nodes)], Blank>>

\* Section 2: one line per observed change type, then the violation total.
ChangeSummaryLines(nodes) ==
  LET change_counts == ChangeCounter(nodes)
      violation_count == ViolationCount(nodes)
  IN <<[k |-> "change_summary"]>>
     \o [i \in DOMAIN change_counts |->
          [k |-> "change", icon |-> Icon(change_counts[i].key),
           change_type |-> Str(change_counts[i].key),
           count |-> Len(change_counts[i].items)]]
     \o (IF violation_count > 0
         THEN <<[k |-> "violations", count |-> violation_count]>> ELSE <<>>)
     \o <<Blank>>

\* [n for n in country_nodes if <in violation>]
ViolationNodes(items) == SelectSeq(items, LAMBDA n : InViolation(n.violations))

\* Mutant: the breakdown is added for several change types only, the
\* violating nodes are not looked at.
CountryEntry_ChangeTypesOnly(g) ==
  LET change_breakdown == ChangeCounter(g.items)
      violation_nodes == ViolationNodes(g.items)
      paren == Len(change_breakdown) > 1
  IN [ k |-> "country", country |-> g.key, count |-> Len(g.items),
       paren |-> paren,
       details |->
         IF paren
         THEN [i \in DOMAIN change_breakdown |->
                 [icon |-> Icon(change_breakdown[i].key),
                  count |-> Len(change_breakdown[i].items),
                  label |-> ""]]
              \o (IF violation_nodes # <<>>
                  THEN <<[icon |-> "yellow", count |-> Len(violation_nodes),
                          label |-> "violations"]>>
                  ELSE <<>>)
         ELSE <<>> ]

\* The (country, count, summary) tuple of one country; details is what goes
\* between the parentheses, empty when the line has none.
CountryEntry(g) ==
  LET change_breakdown == ChangeCounter(g.items)
      violation_nodes == ViolationNodes(g.items)
      paren == Len(change_breakdown) > 1 \/ violation_nodes # <<>>
  IN [ k |-> "country", country |-> g.key, count |-> Len(g.items),
       paren |-> paren,
       details |->
         IF paren
         THEN [i \in DOMAIN change_breakdown |->
                 [icon |-> Icon(change_breakdown[i].key),
                  count |-> Len(change_breakdown[i].items),
                  label |-> ""]]
              \o (IF violation_nodes # <<>>
                  THEN <<[icon |-> "yellow", count |-> Len(violation_nodes),
                          label |-> "violations"]>>
                  ELSE <<>>)
         ELSE <<>> ]

\* Section 3: non-empty countries, most nodes first.
CountryLines(nodes) ==
  LET named == SelectSeq(Countries(nodes), LAMBDA g : Truthy(g.key))
      country_summary == [i \in DOMAIN named |-> CountryEntry(named[i])]
  IN <<[k |-> "country_distribution"]>> \o SortedByCount(country_summary) \o <<Blank>>

\* The node lines under one datacenter of the regional breakdown.
RegionNodeLines(dc_nodes) ==
  Flatten([i \in DOMAIN dc_nodes |->
    LET node == dc_nodes[i]
        marked == InViolation(node.violations)
    IN <<[k |-> "node", icon |-> Icon(node.change_type), node_id |-> node.node_id,
          city |-> node.city, marker |-> marked]>>
       \o (IF marked THEN <<[k |-> "node_violations", text |-> node.violations]>>
           ELSE <<>>)])

\* One region of the breakdown: its heading, then its datacenters by key.
RegionLines(g) ==
  LET dc_groups == SortedByKey(GroupPairs([i \in DOMAIN g.items |->
        << Str(g.items[i].dc_id) \o <<" ", "(">> \o Str(g.items[i].dc_owner) \o <<")">>,
           g.items[i] >>]))
  IN <<[k |-> "region", region |-> g.key, count |-> Len(g.items)]>>
     \o Flatten([i \in DOMAIN dc_groups |->
          <<[k |-> "dc", dc_info |-> dc_groups[i].key]>>
          \o RegionNodeLines(dc_groups[i].items)])

\* Section 4: regions by key, the empty key and "," skipped.
RegionalLines(nodes) ==
  LET shown == SelectSeq(SortedByKey(Regions(nodes)),
                         LAMBDA g : g.key # S_Empty /\ g.key # <<",">>)
  IN <<[k |-> "regional_breakdown"]>>
     \o Flatten([i \in DOMAIN shown |-> RegionLines(shown[i])])

\* Mutant: REMOVED nodes are not skipped.
ActiveNodes_KeepRemoved(nodes) == nodes

\* datacenters / owners: the nodes that are not REMOVED, grouped by field.
ActiveNodes(nodes) == SelectSeq(nodes, LAMBDA n : n.change_type # S_REMOVED)

Datacenters(nodes) ==
  LET active == ActiveNodes(nodes)
  IN GroupPairs([i \in DOMAIN active |-> <<active[i].dc_id, active[i]>>])

Owners(nodes) ==
  LET active == ActiveNodes(nodes)
  IN GroupPairs([i \in DOMAIN active |-> <<active[i].dc_owner, active[i]>>])

\* [(key, nodes) for key, nodes in groups.items() if len(nodes) > 1]
Shared(groups) == SelectSeq(groups, LAMBDA g : Len(g.items) > 1)

\* The lines of one violation list (kind "dc" or "owner").
ViolationLines(kind, violations) ==
  Flatten([i \in DOMAIN violations |->
    <<[k |-> "group_violation", kind |-> kind, name |-> Str(violations[i].key),
       count |-> Len(violations[i].items)]>>
    \o [j \in DOMAIN violations[i].items |->
         [k |-> "group_node", icon |-> Icon(violations[i].items[j].change_type),
          node_id |-> Str(violations[i].items[j].node_id)]]])

\* Section 5: datacenter and owner colocation.
ConstraintLines(nodes) ==
  LET dc_violations == Shared(Datacenters(nodes))
      owner_violations == Shared(Owners(nodes))
  IN <<Rule, [k |-> "constraint_analysis"], Rule>>
     \o (IF dc_violations # <<>>
         THEN <<[k |-> "dc_violations"]>> \o ViolationLines("dc", dc_violations)
              \o <<Blank>>
         ELSE <<>>)
     \o (IF owner_violations # <<>>
         THEN <<[k |-> "owner_violations"]>> \o ViolationLines("owner", owner_violations)
              \o <<Blank>>
         ELSE <<>>)
     \o (IF dc_violations = <<>> /\ owner_violations = <<>>
         THEN <<[k |-> "no_violations"], [k |-> "provider_note"], Blank>>
         ELSE <<>>)

\* Section 6: the tip.
FooterLines == <<Rule, [k |-> "tip"], [k |-> "tip_open_map"], Rule>>

\* Everything print_geographic_summary prints when it runs to its end.
ReportLines(nodes, subnet_id) ==
  HeaderLines(nodes, subnet_id) \o ChangeSummaryLines(nodes) \o CountryLines(nodes)
  \o RegionalLines(nodes) \o ConstraintLines(nodes) \o FooterLines

\* ------------------------------------------------ map utility: the page
\* subnet_id[:40] keeps at most this many characters.
SubnetDisplayLen == 40

\* Mutant: only the latitude is tested.
ValidNodes_LatitudeOnly(nodes) == SelectSeq(nodes, LAMBDA n : n.latitude # None)

\* valid_nodes: the nodes with both coordinates set, input order kept.
ValidNodes(nodes) ==
  SelectSeq(nodes, LAMBDA n : n.latitude # None /\ n.longitude # None)

\* json.dumps of one value: None is written null; a str is written as the
\* JSON string of the same text and a float as the JSON number of the same value.
JsonNull == <<"null">>
JsonValue(v) == IF v = None THEN JsonNull ELSE v

\* json.dumps(valid_nodes): the array of objects, one per node, in order.
JsonDumps(valid_nodes) ==
  [i \in DOMAIN valid_nodes |->
    [f \in DOMAIN valid_nodes[i] |-> JsonValue(valid_nodes[i][f])]]

\* What the template's placeholders are filled with; the rest of the
\* document is fixed text.
HtmlDocument(nodes, subnet_id) ==
  [ subnet |-> Prefix(subnet_id, SubnetDisplayLen) \o S_Ellipsis,
    total |-> Len(nodes),
    added |-> ChangeCount(nodes, S_ADDED),
    removed |-> ChangeCount(nodes, S_REMOVED),
    unchanged |-> ChangeCount(nodes, S_UNCHANGED),
    violations |-> ViolationCount(nodes),
    nodes |-> JsonDumps(ValidNodes(nodes)) ]

\* ------------------------------------------------------------ the inputs
\* Values a field of the input file takes, per column.
LongId ==
  <<"a","b","c","d","e","f","g","h","i","j","k","l","m","n","o","p","q","r","s","t","u","v">>

ColValues(col) ==
  CASE col = "node_id" -> { <<"n","1">>, LongId }
    [] col = "node_operator_dc" -> { <<"d","c","1">>, <<"d","c","2">> }
    [] col = "dc_owner" -> { <<"A">>, <<"B">> }
    [] col = "change_type" -> { S_ADDED, S_REMOVED, S_UNCHANGED }
    [] col = "constraint_violation" ->
         { S_Empty, S_NO_VIOLATIONS, S_REMOVED_NODE, <<"b","a","d">> }
    [] col = "dc_region" ->
         { S_Empty, <<"N","A",",","U","S",",","N","Y","C">>, <<"E","U",","," ","D","E">> }
    [] col = "gps_latitude" ->
         { S_Empty, S_None, <<"a","b","c">>, <<" ","3","7",".","5">> }
    [] col = "gps_longitude" -> { S_Empty, <<"-","7","4",".","0">> }
    [] OTHER -> { S_Empty }

\* Header lines of the input file: which columns it has, in which order.
Headers ==
  { <<"node_operator_dc", "change_type", "dc_owner">>,
    <<"constraint_violation", "node_id">>,
    <<"gps_latitude", "gps_longitude">>,
    <<"dc_region", "node_id", "gps_longitude">> }

\* Rows of exactly n fields under a header.
RECURSIVE RowsOfLen(_, _)
RowsOfLen(hdr, n) ==
  IF n = 0 THEN { <<>> }
  ELSE { Append(r, v) : r \in RowsOfLen(hdr, n - 1), v \in ColValues(hdr[n]) }

\* Data rows DictReader yields under a header: a row may stop short of the
\* header; a line with no field at all is skipped by the reader.
RowsOf(hdr) == UNION { RowsOfLen(hdr, n) : n \in 1..Len(hdr) }

\* --subnet-id
SubnetIds == { S_Empty, <<"s","1">> }

\* dc_region strings of the region-parsing specification.
RegionAlphabet == { "N", "U", ",", " " }
RegionStrings == UNION { [1..n -> RegionAlphabet] : n \in 0..MaxLen }

\* -------------------------------------------------------------- the state
VARIABLES
  util,        \* which utility runs: "text" or "map"
  subnetId,    \* args.subnet_id
  fileExists,  \* whether args.input exists
  header,      \* the input file's header line
  rows,        \* the data rows the reader has consumed so far
  nodes,       \* the list read_subnet_data builds
  stdout,      \* the lines printed so far
  writes,      \* the files written so far
  pc,          \* where main is
  outcome,     \* "running", the return value of main, or the exception raised
  region,      \* region parsing on its own: the dc_region string
  textParse,   \* ... what the text analyser derives from it (<<>> before)
  mapParse     \* ... what the map loader derives from it (<<>> before)

vars == <<util, subnetId, fileExists, header, rows, nodes, stdout, writes, pc,
          outcome, region, textParse, mapParse>>

inputVars == <<util, subnetId, fileExists, header>>
regionVars == <<region, textParse, mapParse>>

Init ==
  /\ util \in {"text", "map"}
  /\ subnetId \in SubnetIds
  /\ fileExists \in BOOLEAN
  /\ header \in (IF fileExists THEN Headers ELSE { <<>> })
  /\ rows = <<>>
  /\ nodes = <<>>
  /\ stdout = <<>>
  /\ writes = <<>>
  /\ pc = "main"
  /\ outcome = "running"
  /\ region = S_Empty
  /\ textParse = <<>>
  /\ mapParse = <<>>

\* ------------------------------------------------ text utility: main
\* main: the existence check on args.input.
TextCheckInput ==
  /\ util = "text" /\ pc = "main"
  /\ IF ~fileExists
     THEN /\ stdout' = Append(stdout, [k |-> "not_found"])
          /\ outcome' = "1"
          /\ pc' = "exit"
     ELSE /\ pc' = "read"
          /\ UNCHANGED <<stdout, outcome>>
  /\ UNCHANGED <<inputVars, rows, nodes, writes, regionVars>>

\* read_subnet_data: one turn of the loop over the reader.
TextReadRow ==
  /\ util = "text" /\ pc = "read"
  /\ Len(rows) < MaxRows
  /\ \E row \in RowsOf(header) :
       /\ rows' = Append(rows, row)
       /\ nodes' = Append(nodes, TextNode(header, row))
  /\ UNCHANGED <<inputVars, stdout, writes, pc, outcome, regionVars>>

\* read_subnet_data: the reader is exhausted, the list is returned.
TextReturnNodes ==
  /\ util = "text" /\ pc = "read"
  /\ pc' = "loaded"
  /\ UNCHANGED <<inputVars, rows, nodes, stdout, writes, outcome, regionVars>>

\* Mutant: the empty list is not caught (tested against None instead).
TextCheckNodes_NoEmptyCheck ==
  /\ util = "text" /\ pc = "loaded"
  /\ pc' = "render"
  /\ UNCHANGED <<inputVars, rows, nodes, stdout, writes, outcome, regionVars>>

\* main: the check for an empty list.
TextCheckNodes ==
  /\ util = "text" /\ pc = "loaded"
  /\ IF nodes = <<>>
     THEN /\ stdout' = Append(stdout, [k |-> "no_nodes"])
          /\ outcome' = "1"
          /\ pc' = "exit"
     ELSE /\ pc' = "render"
          /\ UNCHANGED <<stdout, outcome>>
  /\ UNCHANGED <<inputVars, rows, nodes, writes, regionVars>>

\* main: print_geographic_summary(nodes, args.subnet_id), then return 0.  The
\* analysis runs before the first print, so a TypeError it raises leaves
\* stdout as it was and main never returns.
PrintSummary ==
  /\ util = "text" /\ pc = "render"
  /\ IF AnalyzeRaises(nodes)
     THEN /\ outcome' = "TypeError"
          /\ UNCHANGED stdout
     ELSE /\ stdout' = stdout \o ReportLines(nodes, subnetId)
          /\ outcome' = "0"
  /\ pc' = "exit"
  /\ UNCHANGED <<inputVars, rows, nodes, writes, regionVars>>

\* ------------------------------------------------- map utility: main
\* main: the existence check on args.input, then the progress line.
MapCheckInput ==
  /\ util = "map" /\ pc = "main"
  /\ IF ~fileExists
     THEN /\ stdout' = Append(stdout, [k |-> "not_found"])
          /\ outcome' = "1"
          /\ pc' = "exit"
     ELSE /\ stdout' = Append(stdout, [k |-> "reading"])
          /\ pc' = "read"
          /\ UNCHANGED outcome
  /\ UNCHANGED <<inputVars, rows, nodes, writes, regionVars>>

\* read_subnet_data: one turn of the loop; an exception in the try block is
\* caught, reported and the row skipped.
MapReadRow ==
  /\ util = "map" /\ pc = "read"
  /\ Len(rows) < MaxRows
  /\ \E row \in RowsOf(header) :
       /\ rows' = Append(rows, row)
       /\ IF MapRow(header, row).raised
          THEN /\ stdout' = Append(stdout, MapRow(header, row).warning)
               /\ UNCHANGED nodes
          ELSE /\ nodes' = Append(nodes, MapRow(header, row).node)
               /\ UNCHANGED stdout
  /\ UNCHANGED <<inputVars, writes, pc, outcome, regionVars>>

\* read_subnet_data: the reader is exhausted, the list is returned.
MapReturnNodes ==
  /\ util = "map" /\ pc = "read"
  /\ pc' = "loaded"
  /\ UNCHANGED <<inputVars, rows, nodes, stdout, writes, outcome, regionVars>>

\* main: the check for an empty list, then the progress line.
MapCheckNodes ==
  /\ util = "map" /\ pc = "loaded"
  /\ IF nodes = <<>>
     THEN /\ stdout' = Append(stdout, [k |-> "no_nodes"])
          /\ outcome' = "1"
          /\ pc' = "exit"
     ELSE /\ stdout' = Append(stdout, [k |-> "generating", n |-> Len(nodes)])
          /\ pc' = "render"
          /\ UNCHANGED outcome
  /\ UNCHANGED <<inputVars, rows, nodes, writes, regionVars>>

\* main: generate_html_map(nodes, args.output, args.subnet_id), then return 0.
GenerateMap ==
  /\ util = "map" /\ pc = "render"
  /\ writes' = Append(writes, [path |-> "output_file",
                               content |-> HtmlDocument(nodes, subnetId)])
  /\ stdout' = stdout \o <<[k |-> "map_generated"], [k |-> "open_in_browser"]>>
  /\ outcome' = "0"
  /\ pc' = "exit"
  /\ UNCHANGED <<inputVars, rows, nodes, regionVars>>

Next ==
  \/ TextCheckInput \/ TextReadRow \/ TextReturnNodes \/ TextCheckNodes \/ PrintSummary
  \/ MapCheckInput \/ MapReadRow \/ MapReturnNodes \/ MapCheckNodes \/ GenerateMap

Spec == Init /\ [][Next]_vars

\* ------------------------------------- region parsing on its own
InitRegion ==
  /\ region \in RegionStrings
  /\ textParse = <<>>
  /\ mapParse = <<>>
  /\ util = "text"
  /\ subnetId = S_Empty
  /\ fileExists = FALSE
  /\ header = <<>>
  /\ rows = <<>>
  /\ nodes = <<>>
  /\ stdout = <<>>
  /\ writes = <<>>
  /\ pc = "region"
  /\ outcome = "running"

mainVars == <<util, subnetId, fileExists, header, rows, nodes, stdout, writes, pc, outcome>>

\* analyze_geographic_distribution parses the string.
TextParse ==
  /\ pc = "region" /\ textParse = <<>>
  /\ textParse' = ParseRegion(region)
  /\ UNCHANGED <<mainVars, region, mapParse>>

\* The map's read_subnet_data parses the string.
MapParse ==
  /\ pc = "region" /\ mapParse = <<>>
  /\ mapParse' = MapRegion(region)
  /\ UNCHANGED <<mainVars, region, textParse>>

NextRegion == TextParse \/ MapParse

SpecRegion == InitRegion /\ [][NextRegion]_vars

\* ------------------------- the text report's country section on its own
\* Most data rows read for the country-order specification.
MaxCountryRows == 3

\* A run of the text utility on an existing file with the given header.
InitText(hdr) ==
  /\ util = "text"
  /\ subnetId = S_Empty
  /\ fileExists = TRUE
  /\ header = hdr
  /\ rows = <<>>
  /\ nodes = <<>>
  /\ stdout = <<>>
  /\ writes = <<>>
  /\ pc = "main"
  /\ outcome = "running"
  /\ region = S_Empty
  /\ textParse = <<>>
  /\ mapParse = <<>>

\* Files of regions and change types.
InitCountry == InitText(<<"dc_region", "change_type">>)

\* read_subnet_data: one turn of the loop over the reader (longer files).
TextReadCountryRow ==
  /\ util = "text" /\ pc = "read"
  /\ Len(rows) < MaxCountryRows
  /\ \E row \in RowsOf(header) :
       /\ rows' = Append(rows, row)
       /\ nodes' = Append(nodes, TextNode(header, row))
  /\ UNCHANGED <<inputVars, stdout, writes, pc, outcome, regionVars>>

NextCountry ==
  \/ TextCheckInput \/ TextReadCountryRow \/ TextReturnNodes \/ TextCheckNodes
  \/ PrintSummary

SpecCountry == InitCountry /\ [][NextCountry]_vars

\* Files of regions, change types and violations.
InitBreakdown == InitText(<<"dc_region", "change_type", "constraint_violation">>)

NextText ==
  \/ TextCheckInput \/ TextReadRow \/ TextReturnNodes \/ TextCheckNodes \/ PrintSummary

SpecBreakdown == InitBreakdown /\ [][NextText]_vars

\* ===================================================================
\* Properties
\* ===================================================================
\* Lines of stdout of one kind.
LinesOf(kind) == SelectSeq(stdout, LAMBDA l : l.k = kind)

\* A run that got through to the end of its rendering step.
Rendered == pc = "exit" /\ outcome = "0"

\* Indexes of the records whose constraint_violation is a non-empty string
\* other than the two sentinels.
Violating ==
  { i \in DOMAIN nodes :
      nodes[i].constraint_violation
        \notin {None, S_Empty, S_NO_VIOLATIONS, S_REMOVED_NODE} }

\* C1: the violation total of the text report (its line is printed only when
\* the total is positive) and the Topology Violations number of the map panel
\* both equal the number of records of the full node sequence whose
\* constraint_violation is non-empty and neither NO_VIOLATIONS nor REMOVED_NODE.
C1_ViolationTotals ==
  /\ (Rendered /\ util = "text") =>
       LinesOf("violations") =
         (IF Violating = {} THEN <<>>
          ELSE <<[k |-> "violations", count |-> Cardinality(Violating)]>>)
  /\ (Rendered /\ util = "map") =>
       writes[1].content.violations = Cardinality(Violating)

\* C1 witness: a finished run over a record in violation next to one that
\* carries the REMOVED_NODE sentinel.
C1_Witness ==
  /\ Rendered
  /\ \E i, j \in DOMAIN nodes :
       /\ nodes[i].constraint_violation = <<"b","a","d">>
       /\ nodes[j].constraint_violation = S_REMOVED_NODE

\* Nodes that are not REMOVED and whose field f formats as name.
ActiveWith(f, name) ==
  { i \in DOMAIN nodes : nodes[i].change_type # S_REMOVED /\ Str(nodes[i][f]) = name }

\* The group lines the constraint analysis owes for field f: one per value
\* that more than one non-REMOVED node has, with the number of those nodes.
OwedGroupLines(kind, f) ==
  { [k |-> "group_violation", kind |-> kind, name |-> name,
     count |-> Cardinality(ActiveWith(f, name))] :
      name \in { n \in { Str(nodes[i][f]) : i \in DOMAIN nodes } :
                   Cardinality(ActiveWith(f, n)) > 1 } }

PrintedGroupLines(kind) ==
  { stdout[i] : i \in { j \in DOMAIN stdout :
                          stdout[j].k = "group_violation" /\ stdout[j].kind = kind } }

\* C2: in the printed report a dc_id (a dc_owner) is listed as a structural
\* violation iff more than one non-REMOVED node has it, once, with the number
\* of those nodes; REMOVED nodes never count.
C2_StructuralViolations ==
  (Rendered /\ util = "text") =>
    /\ PrintedGroupLines("dc") = OwedGroupLines("dc", "dc_id")
    /\ PrintedGroupLines("owner") = OwedGroupLines("owner", "dc_owner")
    /\ Len(LinesOf("group_violation"))
         = Cardinality(PrintedGroupLines("dc")) + Cardinality(PrintedGroupLines("owner"))

\* C2 witness: a report that lists a datacenter although a REMOVED node or a
\* node of another datacenter was read too, or lists none although two nodes
\* share a datacenter and one of them is REMOVED.
C2_Witness ==
  /\ Rendered /\ util = "text"
  /\ \E i, j \in DOMAIN nodes :
       /\ i # j /\ nodes[i].dc_id = nodes[j].dc_id
       /\ nodes[i].change_type = S_REMOVED /\ nodes[j].change_type = S_ADDED
  /\ PrintedGroupLines("dc") = {}

\* Indexes of the nodes with both coordinates set.
Located == { i \in DOMAIN nodes : nodes[i].latitude # None /\ nodes[i].longitude # None }

\* The object the page embeds for a node: every field of the node, None as null.
Embeds(obj, node) ==
  /\ DOMAIN obj = DOMAIN node
  /\ \A f \in DOMAIN node : obj[f] = (IF node[f] = None THEN JsonNull ELSE node[f])

\* C3: the node list embedded in the page is the subsequence, in input order,
\* of the nodes with latitude and longitude both set (so no embedded node has
\* an unset coordinate), and Total Nodes Analysed is the length of the full list.
C3_MapFilter ==
  (Rendered /\ util = "map") =>
    LET doc == writes[1].content
    IN /\ doc.total = Len(nodes)
       /\ Len(doc.nodes) = Cardinality(Located)
       /\ \A j \in DOMAIN doc.nodes :
            doc.nodes[j].latitude # JsonNull /\ doc.nodes[j].longitude # JsonNull
       /\ \E f \in [DOMAIN doc.nodes -> Located] :
            /\ \A a, b \in DOMAIN doc.nodes : a < b => f[a] < f[b]
            /\ \A j \in DOMAIN doc.nodes : Embeds(doc.nodes[j], nodes[f[j]])

\* C3 witness: a page written for two nodes of which exactly one is located,
\* the other having a latitude but no longitude.
C3_Witness ==
  /\ Rendered /\ util = "map"
  /\ Len(nodes) = 2 /\ Cardinality(Located) = 1
  /\ \E i \in DOMAIN nodes : nodes[i].latitude # None /\ nodes[i].longitude = None

\* Positions of the commas of a string, and its k-th comma-separated segment.
Commas(s) == { i \in DOMAIN s : s[i] = "," }
NthComma(s, n) == CHOOSE i \in Commas(s) : Cardinality({ j \in Commas(s) : j < i }) = n - 1
Segment(s, n) ==
  SubSeq(s,
         IF n = 1 THEN 1 ELSE NthComma(s, n - 1) + 1,
         IF n <= Cardinality(Commas(s)) THEN NthComma(s, n) - 1 ELSE Len(s))

\* r is t without its leading and trailing whitespace.
IsTrimOf(r, t) ==
  \E a, b \in 0..Len(t) :
    /\ a + b <= Len(t)
    /\ r = SubSeq(t, a + 1, Len(t) - b)
    /\ \A i \in 1..a : t[i] \in Whitespace
    /\ \A i \in (Len(t) - b + 1)..Len(t) : t[i] \in Whitespace
    /\ r = <<>> \/ (r[1] \notin Whitespace /\ r[Len(r)] \notin Whitespace)

\* C4: for every region string the text analyser's parse yields a triple
\* (it never raises): with three or more comma-separated segments the first
\* three, trimmed; with exactly two the two, trimmed, and an empty city; with
\* one segment or the empty string the string itself and two empty fields.
C4_RegionParsing ==
  textParse # <<>> =>
    /\ Len(textParse) = 3
    /\ LET n == Cardinality(Commas(region)) + 1
       IN IF n >= 3
          THEN \A k \in 1..3 : IsTrimOf(textParse[k], Segment(region, k))
          ELSE IF n = 2
          THEN /\ \A k \in 1..2 : IsTrimOf(textParse[k], Segment(region, k))
               /\ textParse[3] = S_Empty
          ELSE textParse = <<region, S_Empty, S_Empty>>

\* C4 witness: a parsed string of four segments, one of them padded.
C4_Witness ==
  /\ textParse # <<>>
  /\ Cardinality(Commas(region)) = 3
  /\ \E k \in 1..3 : Segment(region, k) = <<" ">>

\* C5: a run on a missing path never enters the reader and ends with the
\* missing-file error alone and return value 1; a run whose file yields no
\* record ends with 'No nodes found' last and return value 1; on both paths
\* no line of a report or of the map step is printed and no file is written.
C5_FailurePaths ==
  /\ ~fileExists => pc \in {"main", "exit"} /\ rows = <<>>
  /\ (pc = "exit" /\ ~fileExists) =>
       /\ outcome = "1"
       /\ stdout = <<[k |-> "not_found"]>>
       /\ writes = <<>>
  /\ (pc = "exit" /\ fileExists /\ nodes = <<>>) =>
       /\ outcome = "1"
       /\ stdout[Len(stdout)] = [k |-> "no_nodes"]
       /\ \A i \in DOMAIN stdout : stdout[i].k \in {"reading", "warning", "no_nodes"}
       /\ writes = <<>>

\* C5 witness: the map utility ends on an existing file all of whose rows
\* were skipped.
C5_Witness ==
  /\ pc = "exit" /\ util = "map" /\ fileExists
  /\ rows # <<>> /\ nodes = <<>> /\ outcome = "1"

\* The str fields of a node record.
StrFields(node) == DOMAIN node \ {"latitude", "longitude"}

\* C6: every field of every node record read is a value, never None.
C6_AllFieldsDefaulted ==
  \A i \in DOMAIN nodes : \A f \in StrFields(nodes[i]) : nodes[i][f] # None

\* Whether a row carries a field for a column, and the field.
HasField(hdr, row, col) ==
  \E i \in DOMAIN hdr : hdr[i] = col /\ i <= Len(row)
Field(hdr, row, col) == row[CHOOSE i \in DOMAIN hdr : hdr[i] = col]

\* The coordinate a row owes for a column: unset when the field is absent,
\* empty, the text None or not a number, else the number.
OwedCoordinate(hdr, row, col) ==
  IF ~HasField(hdr, row, col) THEN None
  ELSE LET text == Strip(Field(hdr, row, col))
       IN IF text = S_Empty \/ text = S_None \/ PyFloat(text) = ValueError
          THEN None ELSE PyFloat(text)

\* C7: in the map loader every row read yields its record, with each
\* coordinate unset or the number of its field, and no warning is printed.
C7_CoercionKeepsRow ==
  util = "map" =>
    /\ Len(nodes) = Len(rows)
    /\ LinesOf("warning") = <<>>
    /\ \A i \in DOMAIN nodes :
         /\ nodes[i].latitude = OwedCoordinate(header, rows[i], "gps_latitude")
         /\ nodes[i].longitude = OwedCoordinate(header, rows[i], "gps_longitude")

\* The six sections of the text report, by the line that opens each.
SectionOpeners ==
  {"title", "change_summary", "country_distribution", "regional_breakdown",
   "constraint_analysis", "tip"}

\* C8: a run that loaded a non-empty list ends with return value 0, the text
\* utility having printed all six sections and the map utility having written
\* the document.
C8_NoFailureAfterLoad ==
  (pc = "exit" /\ fileExists /\ nodes # <<>>) =>
    /\ outcome = "0"
    /\ util = "text" => \A o \in SectionOpeners : LinesOf(o) # <<>>
    /\ util = "map" => Len(writes) = 1

\* C9: the country and city the map loader derives from a dc_region string
\* are those the text analyser derives from it.
C9_SameCountryCity ==
  (textParse # <<>> /\ mapParse # <<>>) =>
    /\ mapParse[1] = textParse[2]
    /\ mapParse[2] = textParse[3]

\* Rows of the input on which the map loader's try block raises: the header
\* has a coordinate column and the row stops before it.
FailingRows ==
  { i \in DOMAIN rows :
      \E col \in {"gps_latitude", "gps_longitude"} :
        (\E c \in DOMAIN header : header[c] = col) /\ ~HasField(header, rows[i], col) }

\* The i-th smallest member of a set of indexes.
Nth(S, i) == CHOOSE x \in S : Cardinality({ y \in S : y < x }) = i - 1

\* C10: the map loader returns the records of exactly the non-failing rows,
\* in row order, and prints one warning per failing row, in row order, naming
\* the row's node id, or unknown when the row has none.
C10_RowSkipped ==
  util = "map" =>
    LET good == DOMAIN rows \ FailingRows
        warned == LinesOf("warning")
    IN /\ Len(nodes) = Cardinality(good)
       /\ \A j \in DOMAIN nodes : nodes[j] = MapRow(header, rows[Nth(good, j)]).node
       /\ Len(warned) = Cardinality(FailingRows)
       /\ \A j \in DOMAIN warned :
            LET row == rows[Nth(FailingRows, j)]
            IN warned[j].node = (IF HasField(header, row, "node_id")
                                 THEN Field(header, row, "node_id") ELSE S_unknown)

\* The country the text analyser derives for a node, the nodes of a country,
\* and where a country is first met in the input.
CountryOf(i) == ParseRegion(nodes[i].dc_region)[2]
NodesIn(country) == { i \in DOMAIN nodes : CountryOf(i) = country }
FirstMet(country) == CHOOSE i \in NodesIn(country) : \A j \in NodesIn(country) : i <= j

\* The lines of the country-distribution section, as printed.
CountryLinesPrinted == LinesOf("country")

\* C11: the country section has one line for each non-empty country and no
\* other, each with the number of the country's nodes; the lines are in
\* descending order of that number, and of two countries with equal numbers
\* the one met first in the input comes first.
C11_CountryOrder ==
  Rendered =>
    LET printed == CountryLinesPrinted
    IN /\ { printed[a].country : a \in DOMAIN printed }
            = { CountryOf(i) : i \in DOMAIN nodes } \ { S_Empty }
       /\ \A a, b \in DOMAIN printed : a # b => printed[a].country # printed[b].country
       /\ \A a \in DOMAIN printed :
            printed[a].count = Cardinality(NodesIn(printed[a].country))
       /\ \A a, b \in DOMAIN printed :
            a < b =>
              \/ printed[a].count > printed[b].count
              \/ /\ printed[a].count = printed[b].count
                 /\ FirstMet(printed[a].country) < FirstMet(printed[b].country)

\* C11 witness: a report over three nodes, one without a country and two of
\* different countries, the two lines tied at one node each.
C11_Witness ==
  /\ Rendered /\ Len(nodes) = 3
  /\ \E i \in DOMAIN nodes : CountryOf(i) = S_Empty
  /\ Len(CountryLinesPrinted) = 2
  /\ CountryLinesPrinted[1].count = CountryLinesPrinted[2].count

\* For the nodes of one country (a set of indexes): the change types seen
\* among them, those of one change type, and where a change type is first met.
ChangeTypesIn(members) == { nodes[i].change_type : i \in members }
NodesOfType(members, ct) == { i \in members : nodes[i].change_type = ct }
FirstOfType(members, ct) ==
  CHOOSE i \in NodesOfType(members, ct) : \A j \in NodesOfType(members, ct) : i <= j

\* The n-th change type of a country in order of first occurrence.
NthChangeType(members, n) ==
  CHOOSE ct \in ChangeTypesIn(members) :
    Cardinality({ u \in ChangeTypesIn(members) :
                    FirstOfType(members, u) < FirstOfType(members, ct) }) = n - 1

RECURSIVE SumCounts(_)
SumCounts(details) ==
  IF details = <<>> THEN 0 ELSE Head(details).count + SumCounts(Tail(details))

\* C12: a country's line carries the breakdown iff the country's nodes have
\* more than one distinct change type or one of them is in violation; the
\* breakdown then has one count per change type of the country, in order of
\* first occurrence and summing to the country's node count, followed by the
\* violation count when and only when it is positive.
C12_CountryBreakdown ==
  Rendered =>
    LET printed == CountryLinesPrinted
    IN \A a \in DOMAIN printed :
         LET line == printed[a]
             members == NodesIn(line.country)
             types == Cardinality(ChangeTypesIn(members))
             viol == Cardinality(members \cap Violating)
             changes == SubSeq(line.details, 1, types)
         IN /\ line.paren <=> (types > 1 \/ viol > 0)
            /\ ~line.paren => line.details = <<>>
            /\ line.paren =>
                 /\ Len(line.details) = types + (IF viol > 0 THEN 1 ELSE 0)
                 /\ \A n \in 1..types :
                      LET ct == NthChangeType(members, n)
                      IN /\ changes[n].label = ""
                         /\ changes[n].icon = Icon(ct)
                         /\ changes[n].count = Cardinality(NodesOfType(members, ct))
                 /\ SumCounts(changes) = line.count
                 /\ viol > 0 =>
                      line.details[types + 1]
                        = [icon |-> "yellow", count |-> viol, label |-> "violations"]

\* C12 witness: a country of two nodes with two change types, one of the
\* nodes in violation, printed with its three-part breakdown.
C12_Witness ==
  /\ Rendered
  /\ \E a \in DOMAIN CountryLinesPrinted :
       /\ CountryLinesPrinted[a].count = 2
       /\ Len(CountryLinesPrinted[a].details) = 3
       /\ Cardinality(NodesIn(CountryLinesPrinted[a].country) \cap Violating) = 1

====
